---- MODULE Spec2Model ----
(***************************************************************************)
(* Model of dfuse-pack.py: the DfuSe container codec (build / parse /      *)
(* checkbin / compute_crc) on byte sequences, and the three branches of    *)
(* the main program (binary + Intel-HEX build, S-record build, parse).     *)
(* Bytes are naturals 0..255, byte strings are sequences of bytes.         *)
(***************************************************************************)
EXTENDS Integers, Sequences, FiniteSets, TLC

\* ------------------------------------------------------------------------
\* Bounds of the explored inputs
\* ------------------------------------------------------------------------
MaxTargets == 2
MaxElements == 2
MaxDescs == 3
MaxHexSegs == 1
MaxHexFiles == 1
MaxLines == 4

\* ------------------------------------------------------------------------
\* Program constants
\* ------------------------------------------------------------------------
PREFIX_SIZE == 11
SUFFIX_SIZE == 16
DEFAULT_NAME == <<83, 84, 46, 46, 46>>
DEFAULT_DEVICE == [v |-> 1155, d |-> 57105]
NameFieldLen == 255
TargetHeaderLen == 274
ElementHeaderLen == 8
DfuVersion == 282
PrefixVersion == 1
NamedFlag == 1

SigDfuSe == <<68, 102, 117, 83, 101>>
SigTarget == <<84, 97, 114, 103, 101, 116>>
SigUFD == <<85, 70, 68>>

TwoTo8 == 256
TwoTo16 == 65536

\* ------------------------------------------------------------------------
\* Unsigned integers wider than the checker's machine integers.
\* A Python int v >= 0 that may reach 2^32 and beyond is the record
\* [hi |-> v \div 2^16, lo |-> v % 2^16]; two such records are equal exactly
\* when the integers are.  Lengths and counts stay plain integers.
\* ------------------------------------------------------------------------
W(h, l) == [hi |-> h, lo |-> l]

\* int -> wide
ToW(n) == W(n \div TwoTo16, n % TwoTo16)

\* wide + int
WAdd(w, n) == W(w.hi + ((w.lo + n) \div TwoTo16), (w.lo + n) % TwoTo16)

\* x & 0xFFFFFFFF
Mask32(w) == W(w.hi % TwoTo16, w.lo)

\* min(w, n) as an int, for an int n
WMin(w, n) == IF w.hi >= 32768 THEN n
              ELSE IF w.hi * TwoTo16 + w.lo >= n THEN n ELSE w.hi * TwoTo16 + w.lo

\* ------------------------------------------------------------------------
\* Byte-string helpers (Python slices, struct.pack / struct.unpack)
\* ------------------------------------------------------------------------
\* data[:n] for n >= 0
Take(s, n) == IF n <= 0 THEN <<>> ELSE IF n >= Len(s) THEN s ELSE SubSeq(s, 1, n)

\* data[n:] for n >= 0
Drop(s, n) == IF n <= 0 THEN s ELSE IF n >= Len(s) THEN <<>> ELSE SubSeq(s, n + 1, Len(s))

\* data[:-n] for n > 0
DropLast(s, n) == Take(s, Len(s) - n)

\* data[-n:] for n > 0
TakeLast(s, n) == Drop(s, Len(s) - n)

Zeros(n) == [i \in 1..n |-> 0]

\* struct.pack("B", v) raises struct.error outside 0..255
FitsU8(v) == v >= 0 /\ v < TwoTo8

PackU8(v) == <<v>>

PackU16(v) == <<v % TwoTo8, v \div TwoTo8>>

\* struct.pack("<I", w) for a wide value below 2^32
PackW(w) == PackU16(w.lo) \o PackU16(w.hi)

\* struct.pack("<I", n) for a length or count
PackU32(n) == PackW(ToW(n))

\* struct.pack("<Ns", s): truncated to N bytes, padded with NUL bytes
PackStr(n, s) == IF Len(s) >= n THEN Take(s, n) ELSE s \o Zeros(n - Len(s))

UnpackU8(s, at) == s[at]

UnpackU16(s, at) == s[at] + TwoTo8 * s[at + 1]

UnpackU32(s, at) == W(UnpackU16(s, at + 2), UnpackU16(s, at))

\* bytestring.partition(b"\0")[0]
cstring(bytestring) ==
    LET nuls == {i \in 1..Len(bytestring) : bytestring[i] = 0}
    IN IF nuls = {} THEN bytestring
       ELSE Take(bytestring, (CHOOSE i \in nuls : \A j \in nuls : i <= j) - 1)

\* ------------------------------------------------------------------------
\* zlib.crc32 (CRC-32, reflected polynomial 0xEDB88320) and compute_crc
\* ------------------------------------------------------------------------
\* The 32-bit CRC register is held as its four bytes, least significant
\* first, so that every step is a table lookup.
CrcPoly == <<32, 131, 184, 237>>
AllOnes == <<255, 255, 255, 255>>

RECURSIVE XorBits(_, _, _)
XorBits(a, b, n) ==
    IF n = 0 THEN 0
    ELSE ((a + b) % 2) + 2 * XorBits(a \div 2, b \div 2, n - 1)

XorNib == [a \in 0..15 |-> [b \in 0..15 |-> XorBits(a, b, 4)]]

XorByte == [a \in 0..255 |-> [b \in 0..255 |->
               XorNib[a % 16][b % 16] + 16 * XorNib[a \div 16][b \div 16]]]

Xor8(a, b) == XorByte[a][b]

Xor32(a, b) == <<XorByte[a[1]][b[1]], XorByte[a[2]][b[2]],
                 XorByte[a[3]][b[3]], XorByte[a[4]][b[4]]>>

\* c >> 1
ShiftRight1(c) == <<(c[1] \div 2) + 128 * (c[2] % 2), (c[2] \div 2) + 128 * (c[3] % 2),
                    (c[3] \div 2) + 128 * (c[4] % 2), c[4] \div 2>>

\* the table entry of byte value c: eight conditional shift-and-xor steps
RECURSIVE CrcShift(_, _)
CrcShift(c, n) ==
    IF n = 0 THEN c
    ELSE CrcShift(IF c[1] % 2 = 1 THEN Xor32(ShiftRight1(c), CrcPoly) ELSE ShiftRight1(c), n - 1)

CrcTable == [i \in 0..255 |-> CrcShift(<<i, 0, 0, 0>>, 8)]

\* one step of the byte loop of CRC-32: table[(c ^ b) & 0xFF] ^ (c >> 8)
CrcByte(c, b) ==
    LET t == CrcTable[XorByte[c[1]][b]]
    IN <<XorByte[t[1]][c[2]], XorByte[t[2]][c[3]], XorByte[t[3]][c[4]], t[4]>>

\* the byte loop over data[lo..hi]; the range is halved and the value after
\* the first half is computed before the second half is entered
RECURSIVE CrcUpdate(_, _, _, _)
CrcUpdate(c, data, lo, hi) ==
    IF lo > hi THEN c
    ELSE IF lo = hi THEN CrcByte(c, data[lo])
    ELSE LET left == CrcUpdate(c, data, lo, (lo + hi) \div 2)
         IN IF left[1] >= 0 THEN CrcUpdate(left, data, ((lo + hi) \div 2) + 1, hi) ELSE left

\* the register as a wide integer
RegToW(c) == W(c[3] + TwoTo8 * c[4], c[1] + TwoTo8 * c[2])

zlib_crc32(data) == RegToW(Xor32(CrcUpdate(AllOnes, data, 1, Len(data)), AllOnes))

\* 0xFFFFFFFF & -zlib.crc32(data) - 1: the two's-complement negation minus
\* one of a value below 2^32, masked to 32 bits
compute_crc(data) == LET c == zlib_crc32(data) IN W(TwoTo16 - 1 - c.hi, TwoTo16 - 1 - c.lo)

\* ------------------------------------------------------------------------
\* build(file, targets, name, device): the bytes written to the file.
\* An image is [address |-> wide, alt |-> int, data |-> bytes]; a target is
\* a sequence of images; targets is a sequence of targets.
\* ------------------------------------------------------------------------
\* the inner loop of build: tdata after all images of one target
RECURSIVE ElementsBlob(_)
ElementsBlob(target) ==
    IF target = <<>> THEN <<>>
    ELSE PackW(Head(target).address) \o PackU32(Len(Head(target).data))
         \o Head(target).data \o ElementsBlob(Tail(target))

\* variant: the name is cut to four bytes before it is packed
TargetHeaderShortName(ealt, name, tdata, target) ==
    SigTarget \o PackU8(ealt) \o PackU32(NamedFlag) \o PackStr(NameFieldLen, Take(name, 4))
    \o PackU32(Len(tdata)) \o PackU32(Len(target))

TargetHeader(ealt, name, tdata, target) ==
    SigTarget \o PackU8(ealt) \o PackU32(NamedFlag) \o PackStr(NameFieldLen, name)
    \o PackU32(Len(tdata)) \o PackU32(Len(target))

\* the local variable ealt of build: unassigned until some image was seen
Unbound == [bound |-> FALSE, val |-> 0]

\* ealt after the inner loop over one target
EaltAfter(target, ealt) ==
    IF target = <<>> THEN ealt ELSE [bound |-> TRUE, val |-> target[Len(target)].alt]

\* the outer loop of build; ok = FALSE when struct.pack or the read of an
\* unassigned ealt raises
RECURSIVE BuildTargets(_, _, _)
BuildTargets(targets, name, ealt) ==
    IF targets = <<>> THEN [ok |-> TRUE, data |-> <<>>]
    ELSE LET target == Head(targets)
             tdata == ElementsBlob(target)
             e == EaltAfter(target, ealt)
         IN IF ~e.bound \/ ~FitsU8(e.val) THEN [ok |-> FALSE, data |-> <<>>]
            ELSE LET rest == BuildTargets(Tail(targets), name, e)
                 IN [ok |-> rest.ok,
                     data |-> TargetHeader(e.val, name, tdata, target) \o tdata \o rest.data]

\* variant: the size field leaves out the suffix
FilePrefixNoSuffix(data, targets) ==
    SigDfuSe \o PackU8(PrefixVersion)
    \o PackU32(PREFIX_SIZE + Len(data)) \o PackU8(Len(targets))

FilePrefix(data, targets) ==
    SigDfuSe \o PackU8(PrefixVersion)
    \o PackU32(PREFIX_SIZE + Len(data) + SUFFIX_SIZE) \o PackU8(Len(targets))

SuffixHead(device) ==
    PackU16(0) \o PackU16(device.d) \o PackU16(device.v) \o PackU16(DfuVersion)
    \o SigUFD \o PackU8(SUFFIX_SIZE)

\* variant: the checksum is taken before the suffix fields are appended
BuildCrcInputNoSuffix(data) == DropLast(data, SUFFIX_SIZE - 4)

\* the bytes on which build computes the checksum
BuildCrcInput(data) == data

build(targets, name, device) ==
    LET t == BuildTargets(targets, name, Unbound)
    IN IF ~t.ok \/ ~FitsU8(Len(targets)) THEN [ok |-> FALSE, data |-> <<>>]
       ELSE LET data == FilePrefix(t.data, targets) \o t.data \o SuffixHead(device)
                crc == compute_crc(BuildCrcInput(data))
            IN [ok |-> TRUE, data |-> data \o PackW(crc)]

\* ------------------------------------------------------------------------
\* parse(file): what parse decodes and reports
\* ------------------------------------------------------------------------
\* range(n) over a decoded count: every iteration consumes at least one
\* header from data or raises, so iterations beyond Len(data) + 1 never run
LoopCount(w, data) == WMin(w, Len(data) + 1)

\* the loop over the elements of one target slice
RECURSIVE ParseElements(_, _)
ParseElements(target, n) ==
    IF n = 0 THEN [ok |-> TRUE, images |-> <<>>, rest |-> target]
    ELSE IF Len(target) < ElementHeaderLen THEN [ok |-> FALSE, images |-> <<>>, rest |-> target]
    ELSE LET body == Drop(target, ElementHeaderLen)
             size == UnpackU32(target, 5)
             esize == WMin(size, Len(body))
             r == ParseElements(Drop(body, esize), n - 1)
         IN [ok |-> r.ok,
             images |-> <<[address |-> UnpackU32(target, 1), size |-> size,
                           image |-> Take(body, esize)]>> \o r.images,
             rest |-> r.rest]

\* the loop over the targets
RECURSIVE ParseTargets(_, _)
ParseTargets(data, n) ==
    IF n = 0 THEN [ok |-> TRUE, targets |-> <<>>, rest |-> data]
    ELSE IF Len(data) < TargetHeaderLen THEN [ok |-> FALSE, targets |-> <<>>, rest |-> data]
    ELSE LET body == Drop(data, TargetHeaderLen)
             named == UnpackU32(data, 8)
             size == UnpackU32(data, 267)
             elements == UnpackU32(data, 271)
             tsize == WMin(size, Len(body))
             target == Take(body, tsize)
             e == ParseElements(target, LoopCount(elements, target))
             r == IF e.ok THEN ParseTargets(Drop(body, tsize), n - 1)
                  ELSE [ok |-> FALSE, targets |-> <<>>, rest |-> body]
         IN [ok |-> r.ok,
             targets |-> <<[signature |-> Take(data, 6),
                            altsetting |-> UnpackU8(data, 7),
                            named |-> named,
                            name |-> IF named # W(0, 0)
                                     THEN cstring(SubSeq(data, 12, 266)) ELSE <<>>,
                            size |-> size,
                            elements |-> elements,
                            images |-> e.images,
                            error |-> e.rest # <<>>]>> \o r.targets,
             rest |-> r.rest]

\* the bytes on which parse computes the checksum
ParseCrcInput(data) == DropLast(data, 4)

NoSuffix == [device |-> 0, product |-> 0, vendor |-> 0, dfu |-> 0, ufd |-> <<>>,
             len |-> 0, crc |-> W(0, 0)]

\* struct.unpack("<4H3sBI", s) of exactly SUFFIX_SIZE bytes
UnpackSuffix(s) ==
    [device |-> UnpackU16(s, 1), product |-> UnpackU16(s, 3), vendor |-> UnpackU16(s, 5),
     dfu |-> UnpackU16(s, 7), ufd |-> SubSeq(s, 9, 11), len |-> UnpackU8(s, 12),
     crc |-> UnpackU32(s, 13)]

NoReport == [ok |-> FALSE, targets |-> <<>>, suffix |-> NoSuffix, crc |-> W(0, 0),
             crcError |-> FALSE, parseError |-> FALSE]

parse(file) ==
    LET crc == compute_crc(ParseCrcInput(file))
    IN IF Len(file) < PREFIX_SIZE THEN [NoReport EXCEPT !.crc = crc]
       ELSE LET data == Drop(file, PREFIX_SIZE)
                t == ParseTargets(data, UnpackU8(file, 11))
            IN IF ~t.ok \/ Len(t.rest) < SUFFIX_SIZE
               THEN [NoReport EXCEPT !.crc = crc, !.targets = t.targets]
               ELSE LET suffix == UnpackSuffix(Take(t.rest, SUFFIX_SIZE))
                    IN [ok |-> TRUE, targets |-> t.targets, suffix |-> suffix, crc |-> crc,
                        crcError |-> crc # suffix.crc,
                        parseError |-> Drop(t.rest, SUFFIX_SIZE) # <<>>]

\* ------------------------------------------------------------------------
\* checkbin(binfile): TRUE when checkbin calls sys.exit(1)
\* ------------------------------------------------------------------------
\* variant: the checksum leaves out the whole suffix
CheckbinCrcInputNoSuffix(data) == DropLast(data, SUFFIX_SIZE)

\* the bytes on which checkbin computes the checksum
CheckbinCrcInput(data) == DropLast(data, 4)

checkbin(data) ==
    IF Len(data) < SUFFIX_SIZE THEN FALSE
    ELSE LET crc == compute_crc(CheckbinCrcInput(data))
             suffix == UnpackSuffix(TakeLast(data, SUFFIX_SIZE))
         IN crc = suffix.crc /\ suffix.ufd = SigUFD

\* ------------------------------------------------------------------------
\* State of one run of the program
\* ------------------------------------------------------------------------
VARIABLES
    pc,          \* position in the main program
    binfiles,    \* options.binfiles: the -b descriptors, in order
    hexfiles,    \* options.hexfiles: the -i files as IntelHex presents them
    intelhex,    \* whether the intelhex module could be imported
    s19files,    \* whether options.s19files was given
    lines,       \* f.readlines() of options.s19files
    default_alt, \* default_alt
    k,           \* index of the next descriptor / hex file / line
    lists,       \* the Python list objects created so far, by identity
    targets,     \* targets: a sequence of list identities
    target,      \* target: the identity of the current list
    old_ealt,    \* old_ealt, None when not bound
    address,     \* address of the running S-record segment
    data,        \* data of the running S-record segment
    name,        \* the target name given to build
    out,         \* the output file
    fresh,       \* whether the output file still is what build wrote
    report,      \* what parse decoded from the file
    exitcode     \* exit status of the process, -1 while it runs

vars == <<pc, binfiles, hexfiles, intelhex, s19files, lines, default_alt, k, lists, targets,
          target, old_ealt, address, data, name, out, fresh, report, exitcode>>

NoFile == [exists |-> FALSE, data |-> <<>>]

\* the list objects a sequence of identities refers to
Deref(ids) == [i \in 1..Len(ids) |-> lists[ids[i]]]

\* build(outfile, targets, name, device) followed by the end of the program;
\* an exception leaves through the interpreter with exit status 1
CallBuild(tlist, nm) ==
    \E b \in {build(tlist, nm, DEFAULT_DEVICE)} :
       /\ out' = IF b.ok THEN [exists |-> TRUE, data |-> b.data] ELSE out
       /\ fresh' = b.ok
       /\ pc' = IF b.ok THEN "done" ELSE "raised"
       /\ exitcode' = IF b.ok THEN 0 ELSE 1

\* ------------------------------------------------------------------------
\* The codec on its own: build applied to a target list, parse applied to
\* a file
\* ------------------------------------------------------------------------
ImagePool == <<[address |-> W(2048, 0), data |-> <<170, 187, 204>>],
               [address |-> W(65535, 65535), data |-> <<>>]>>

CodecAlts == {0, 255}

WithAlt(img, alt) == [address |-> img.address, alt |-> alt, data |-> img.data]

SeqsUpTo(S, lo, hi) == UNION {[1..n -> S] : n \in lo..hi}

\* a target of n elements with one alt-setting: the images of the pool in
\* turn, beginning with the first image for alt-setting 0 and with the second
\* for the other
PoolTarget(alt, n) ==
    [i \in 1..n |-> WithAlt(ImagePool[((i + (IF alt = 0 THEN 1 ELSE 0)) % 2) + 1], alt)]

\* the empty target and the targets of 1..MaxElements elements
CodecTargets ==
    {<<>>} \cup {PoolTarget(alt, n) : alt \in CodecAlts, n \in 1..MaxElements}

CodecTargetLists == SeqsUpTo(CodecTargets, 0, MaxTargets)

NameMax == [i \in 1..NameFieldLen |-> 65]
NameNul == <<72, 0, 82>>
CodecNames == {DEFAULT_NAME, NameMax, NameNul}

Tamperings == {"trail", "flip_body", "flip_crc"}

FlipAt(s, p) == [s EXCEPT ![p] = Xor8(s[p], 1)]

TamperFile(s, how) ==
    CASE how = "trail" -> s \o <<0>>
      [] how = "flip_body" -> FlipAt(s, 6)
      [] how = "flip_crc" -> FlipAt(s, Len(s))

InitCommon ==
    /\ k = 1
    /\ target = 0
    /\ old_ealt = Unbound
    /\ address = W(0, 0)
    /\ data = <<>>
    /\ out = NoFile
    /\ fresh = FALSE
    /\ report = NoReport
    /\ exitcode = -1

NoOptions ==
    /\ binfiles = <<>>
    /\ hexfiles = <<>>
    /\ intelhex = TRUE
    /\ s19files = FALSE
    /\ lines = <<>>
    /\ default_alt = 0

InitCodec ==
    /\ pc = "codec"
    /\ InitCommon
    /\ NoOptions
    /\ \E tl \in CodecTargetLists :
          /\ lists = tl
          /\ targets = [i \in 1..Len(tl) |-> i]
    /\ name \in CodecNames

Build ==
    /\ pc = "codec"
    /\ CallBuild(Deref(targets), name)
    /\ UNCHANGED <<binfiles, hexfiles, intelhex, s19files, lines, default_alt, k, lists, targets,
                   target, old_ealt, address, data, name, report>>

\* the file on disk is changed between the build and a later parse
Tamper ==
    /\ pc = "done"
    /\ out.exists
    /\ \E how \in Tamperings :
          out' = [out EXCEPT !.data = TamperFile(out.data, how)]
    /\ fresh' = FALSE
    /\ pc' = "tampered"
    /\ UNCHANGED <<binfiles, hexfiles, intelhex, s19files, lines, default_alt, k, lists, targets,
                   target, old_ealt, address, data, name, report, exitcode>>

Parse ==
    /\ pc \in {"done", "tampered"}
    /\ out.exists
    /\ report' = parse(out.data)
    /\ pc' = IF report'.ok THEN "parsed" ELSE "raised"
    /\ exitcode' = IF report'.ok THEN 0 ELSE 1
    /\ UNCHANGED <<binfiles, hexfiles, intelhex, s19files, lines, default_alt, k, lists, targets,
                   target, old_ealt, address, data, name, out, fresh>>

NextCodec == Build \/ Tamper \/ Parse

SpecCodec == InitCodec /\ [][NextCodec]_vars

\* ------------------------------------------------------------------------
\* Main program, build branch for -b descriptors and -i Intel-HEX files
\* ------------------------------------------------------------------------
\* A -b argument after arg.split(":", 1), address.split("@", 1), int(alts)
\* and int(address, 0):
\*   colon  - the argument holds a ':'
\*   at     - "none": no '@'; "empty": nothing after '@'; "int": int(alts)
\*            succeeded with value alt; "bad": int(alts) raised ValueError
\*   addrok - int(address, 0) succeeded with value addr
\*   file   - the path
\* Files maps a path to the file found there.
\* s.bin: "hello" followed by the suffix that build writes for
\* DEFAULT_DEVICE, checksum 0xdcffe5f5 included
SuffixedFile ==
    <<104, 101, 108, 108, 111, 0, 0, 17, 223, 131, 4, 26, 1, 85, 70, 68, 16,
      245, 229, 255, 220>>
\* b.bin: s.bin with the last checksum byte changed
WrongCrcFile ==
    <<104, 101, 108, 108, 111, 0, 0, 17, 223, 131, 4, 26, 1, 85, 70, 68, 16,
      245, 229, 255, 221>>
\* c.bin: 16 trailing bytes with the marker "UFX" and the checksum of what
\* precedes it, 0xbd4616ff
WrongMarkerFile ==
    <<104, 101, 108, 108, 111, 0, 0, 1, 0, 2, 0, 26, 1, 85, 70, 88, 16,
      255, 22, 70, 189>>

Files == [f \in {"a.bin", "b.bin", "c.bin", "s.bin", "none.bin"} |->
            CASE f = "a.bin" -> [isfile |-> TRUE, data |-> <<65, 65, 65, 65>>]
              [] f = "b.bin" -> [isfile |-> TRUE, data |-> WrongCrcFile]
              [] f = "c.bin" -> [isfile |-> TRUE, data |-> WrongMarkerFile]
              [] f = "s.bin" -> [isfile |-> TRUE, data |-> SuffixedFile]
              [] f = "none.bin" -> [isfile |-> FALSE, data |-> <<>>]]

Desc(addr, at, alt, file) ==
    [colon |-> TRUE, at |-> at, alt |-> alt, addrok |-> TRUE, addr |-> addr, file |-> file]

\* 0x1000@0:a.bin  0x2000:b.bin  0x108003000@1:c.bin  0x4000@1:s.bin
\* 0x5000@:none.bin
DescPool == {Desc(W(0, 4096), "int", 0, "a.bin"),
             Desc(W(0, 8192), "none", 0, "b.bin"),
             Desc(W(67584, 12288), "int", 1, "c.bin"),
             Desc(W(0, 16384), "int", 1, "s.bin"),
             Desc(W(0, 20480), "empty", 0, "none.bin")}

\* an Intel-HEX file as IntelHex presents it: ih.segments() with, for each
\* segment, the bytes ih.tobinstr returns for it
HexSegPool == {[address |-> W(65536, 12288), data |-> <<17, 17>>]}

HexFilePool == SeqsUpTo(HexSegPool, 0, MaxHexSegs)

DefaultAlts == {0, 1}

InitBuild ==
    /\ pc = "start"
    /\ InitCommon
    /\ binfiles \in SeqsUpTo(DescPool, 0, MaxDescs)
    /\ hexfiles \in SeqsUpTo(HexFilePool, 0, MaxHexFiles)
    /\ ~(binfiles = <<>> /\ hexfiles = <<>>)
    /\ intelhex \in (IF hexfiles = <<>> THEN {TRUE} ELSE BOOLEAN)
    /\ default_alt \in DefaultAlts
    /\ s19files = FALSE
    /\ lines = <<>>
    /\ lists = <<>>
    /\ targets = <<>>
    /\ name = DEFAULT_NAME

\* sys.exit(1)
Exit1 ==
    /\ pc' = "exit"
    /\ exitcode' = 1

\* x = [] : a new list object; its identity
NewList == Len(lists) + 1

\* line 253-256: the hex files are next; without the module the program exits
EnterHexOrBuild ==
    IF hexfiles = <<>> THEN pc' = "build" /\ exitcode' = exitcode
    ELSE IF ~intelhex THEN Exit1
    ELSE pc' = "hex" /\ exitcode' = exitcode

\* lines 208-212: target = [], old_ealt = None
StartBuild ==
    /\ pc = "start"
    /\ binfiles # <<>> \/ hexfiles # <<>>
    /\ lists' = Append(lists, <<>>)
    /\ target' = NewList
    /\ old_ealt' = Unbound
    /\ k' = 1
    /\ IF binfiles # <<>> THEN pc' = "bin" /\ exitcode' = exitcode ELSE EnterHexOrBuild
    /\ UNCHANGED <<binfiles, hexfiles, intelhex, s19files, lines, default_alt, targets,
                   address, data, name, out, fresh, report>>

\* lines 219-230: the alt-setting of a descriptor
DescAlt(d) == IF d.at = "int" THEN d.alt ELSE default_alt

\* lines 214-238: the descriptor is refused before its file is read
DescInvalid(d) == ~d.colon \/ d.at = "bad" \/ ~d.addrok \/ ~Files[d.file].isfile

\* lines 243-249: the image appended for a descriptor
DescImage(d) == [address |-> Mask32(d.addr), alt |-> DescAlt(d), data |-> Files[d.file].data]

\* variant: a new target is opened for every descriptor after the first
NeedsNewTargetAlways(old, ealt) == old.bound

\* line 240: old_ealt is not None and ealt != old_ealt
NeedsNewTarget(old, ealt) == old.bound /\ ealt # old.val

\* lines 213-250: one iteration of the loop over options.binfiles
BinStep ==
    /\ pc = "bin"
    /\ k <= Len(binfiles)
    /\ LET d == binfiles[k]
       IN IF DescInvalid(d) \/ checkbin(Files[d.file].data)
          THEN /\ Exit1
               /\ UNCHANGED <<k, lists, targets, target, old_ealt>>
          ELSE /\ IF NeedsNewTarget(old_ealt, DescAlt(d))
                  THEN /\ targets' = Append(targets, target)
                       /\ target' = NewList
                       /\ lists' = Append(lists, <<DescImage(d)>>)
                  ELSE /\ lists' = [lists EXCEPT ![target] = Append(@, DescImage(d))]
                       /\ UNCHANGED <<targets, target>>
               /\ old_ealt' = [bound |-> TRUE, val |-> DescAlt(d)]
               /\ k' = k + 1
               /\ UNCHANGED <<pc, exitcode>>
    /\ UNCHANGED <<binfiles, hexfiles, intelhex, s19files, lines, default_alt,
                   address, data, name, out, fresh, report>>

\* line 251 after the loop, then lines 253-256
BinEnd ==
    /\ pc = "bin"
    /\ k > Len(binfiles)
    /\ targets' = Append(targets, target)
    /\ k' = 1
    /\ EnterHexOrBuild
    /\ UNCHANGED <<binfiles, hexfiles, intelhex, s19files, lines, default_alt, lists,
                   target, old_ealt, address, data, name, out, fresh, report>>

\* lines 259-271: the images appended for one hex file
HexImages(hexf) ==
    [i \in 1..Len(hexf) |-> [address |-> Mask32(hexf[i].address), alt |-> default_alt,
                              data |-> hexf[i].data]]

\* lines 257-271: one iteration of the loop over options.hexfiles
HexStep ==
    /\ pc = "hex"
    /\ k <= Len(hexfiles)
    /\ lists' = [lists EXCEPT ![target] = @ \o HexImages(hexfiles[k])]
    /\ k' = k + 1
    /\ UNCHANGED <<pc, binfiles, hexfiles, intelhex, s19files, lines, default_alt, targets,
                   target, old_ealt, address, data, name, out, fresh, report, exitcode>>

\* line 272 after the loop
HexEnd ==
    /\ pc = "hex"
    /\ k > Len(hexfiles)
    /\ targets' = Append(targets, target)
    /\ pc' = "build"
    /\ UNCHANGED <<binfiles, hexfiles, intelhex, s19files, lines, default_alt, k, lists,
                   target, old_ealt, address, data, name, out, fresh, report, exitcode>>

\* lines 274-283: build(outfile, targets, DEFAULT_NAME, device)
MainBuild ==
    /\ pc = "build"
    /\ CallBuild(Deref(targets), DEFAULT_NAME)
    /\ UNCHANGED <<binfiles, hexfiles, intelhex, s19files, lines, default_alt, k, lists,
                   targets, target, old_ealt, address, data, name, report>>

NextBuild == StartBuild \/ BinStep \/ BinEnd \/ HexStep \/ HexEnd \/ MainBuild

SpecBuild == InitBuild /\ [][NextBuild]_vars

\* ------------------------------------------------------------------------
\* Main program, build branch for an S-record file
\* ------------------------------------------------------------------------
\* A line is the sequence of its character codes.
Whitespace == {9, 10, 11, 12, 13, 32}

\* line.rstrip()
rstrip(line) ==
    LET keep == {i \in 1..Len(line) : line[i] \notin Whitespace}
    IN IF keep = {} THEN <<>>
       ELSE Take(line, CHOOSE i \in keep : \A j \in keep : j <= i)

\* line.startswith("S<digit>")
StartsWithS(line, digit) == Len(line) >= 2 /\ line[1] = 83 /\ line[2] = 48 + digit

\* s[a:b] for 0 <= a and 0 <= b
Slice(s, a, b) ==
    LET e == IF b > Len(s) THEN Len(s) ELSE b
    IN IF a >= e THEN <<>> ELSE SubSeq(s, a + 1, e)

\* s[a:-2]
SliceToLast2(s, a) == Slice(s, a, IF Len(s) >= 2 THEN Len(s) - 2 ELSE 0)

\* value of a hexadecimal digit, -1 for any other character
HexDigit(c) ==
    IF c >= 48 /\ c <= 57 THEN c - 48
    ELSE IF c >= 65 /\ c <= 70 THEN c - 55
    ELSE IF c >= 97 /\ c <= 102 THEN c - 87
    ELSE -1

IsHex(s) == \A i \in 1..Len(s) : HexDigit(s[i]) >= 0

\* value of at most four hexadecimal digits
RECURSIVE HexVal(_)
HexVal(s) == IF s = <<>> THEN 0 ELSE 16 * HexVal(Take(s, Len(s) - 1)) + HexDigit(s[Len(s)])

\* int(s, 16) for at most eight digits; ok = FALSE when it raises ValueError
HexInt(s) ==
    IF s = <<>> \/ ~IsHex(s) THEN [ok |-> FALSE, val |-> W(0, 0)]
    ELSE [ok |-> TRUE, val |-> W(HexVal(Take(s, Len(s) - 4)), HexVal(TakeLast(s, 4)))]

\* binascii.unhexlify(s) / binascii.a2b_hex(s); ok = FALSE when it raises
Unhexlify(s) ==
    IF Len(s) % 2 = 1 \/ ~IsHex(s) THEN [ok |-> FALSE, val |-> <<>>]
    ELSE [ok |-> TRUE,
          val |-> [i \in 1..(Len(s) \div 2) |-> 16 * HexDigit(s[2 * i - 1]) + HexDigit(s[2 * i])]]

\* lines 292-317: what one line sets.  kind is "S0", "data" or "other";
\* status is "ok", "exit" (ValueError caught, sys.exit(1)) or "raise"
\* (binascii raises and nothing catches it)
DataRecord(line, alen) ==
    LET a == HexInt(Slice(line, 4, 4 + alen))
        d == Unhexlify(SliceToLast2(line, 4 + alen))
    IN [kind |-> "data",
        status |-> IF ~a.ok THEN "exit" ELSE IF ~d.ok THEN "raise" ELSE "ok",
        name |-> <<>>, curaddress |-> Mask32(a.val), curdata |-> d.val]

Record(rawline) ==
    LET line == rstrip(rawline)
    IN IF StartsWithS(line, 0)
       THEN LET n == Unhexlify(SliceToLast2(line, 8))
            IN [kind |-> "S0", status |-> IF n.ok THEN "ok" ELSE "raise",
                name |-> n.val, curaddress |-> W(0, 0), curdata |-> <<>>]
       ELSE IF StartsWithS(line, 3) THEN DataRecord(line, 8)
       ELSE IF StartsWithS(line, 2) THEN DataRecord(line, 6)
       ELSE IF StartsWithS(line, 1) THEN DataRecord(line, 4)
       ELSE [kind |-> "other", status |-> "ok", name |-> <<>>,
             curaddress |-> W(0, 0), curdata |-> <<>>]

\* "S00600004844521B\n"
LineS0 == <<83, 48, 48, 54, 48, 48, 48, 48, 52, 56, 52, 52, 53, 50, 49, 66, 10>>

\* "S30900001000AABBCCDDD8\n"
LineA == <<83, 51, 48, 57, 48, 48, 48, 48, 49, 48, 48, 48, 65, 65, 66, 66, 67, 67, 68, 68, 68, 56, 10>>

\* "S1071004112233443A\n"
LineB == <<83, 49, 48, 55, 49, 48, 48, 52, 49, 49, 50, 50, 51, 51, 52, 52, 51, 65, 10>>

\* "S208002000556677881D\n"
LineC == <<83, 50, 48, 56, 48, 48, 50, 48, 48, 48, 53, 53, 54, 54, 55, 55, 56, 56, 49, 68, 10>>

\* "S3090000000001020304EC\n"
LineZ == <<83, 51, 48, 57, 48, 48, 48, 48, 48, 48, 48, 48, 48, 49, 48, 50, 48, 51, 48, 52, 69, 67, 10>>

\* "S5030003F9\n"
LineS5 == <<83, 53, 48, 51, 48, 48, 48, 51, 70, 57, 10>>

\* "S9030000FC\n"
LineS9 == <<83, 57, 48, 51, 48, 48, 48, 48, 70, 67, 10>>

LinePool == {LineS0, LineA, LineB, LineC, LineZ, LineS5, LineS9}

InitS19 ==
    /\ pc = "start"
    /\ InitCommon
    /\ binfiles = <<>>
    /\ hexfiles = <<>>
    /\ intelhex = TRUE
    /\ default_alt \in DefaultAlts
    /\ s19files = TRUE
    /\ lines \in SeqsUpTo(LinePool, 0, MaxLines)
    /\ lists = <<>>
    /\ targets = <<>>
    /\ name = DEFAULT_NAME

\* lines 284-290: address = 0, data = "", target = [], name = DEFAULT_NAME
StartS19 ==
    /\ pc = "start"
    /\ binfiles = <<>> /\ hexfiles = <<>>
    /\ s19files
    /\ address' = W(0, 0)
    /\ data' = <<>>
    /\ lists' = Append(lists, <<>>)
    /\ target' = NewList
    /\ name' = DEFAULT_NAME
    /\ k' = 1
    /\ pc' = "s19"
    /\ UNCHANGED <<binfiles, hexfiles, intelhex, s19files, lines, default_alt, targets,
                   old_ealt, out, fresh, report, exitcode>>

\* line 318: address == 0
IsUnseeded(addr, dat) == addr = W(0, 0)

\* lines 291-328: one iteration of the loop over the lines
S19Line ==
    /\ pc = "s19"
    /\ k <= Len(lines)
    /\ LET r == Record(lines[k])
       IN IF r.status # "ok"
          THEN /\ pc' = IF r.status = "exit" THEN "exit" ELSE "raised"
               /\ exitcode' = 1
               /\ UNCHANGED <<k, lists, address, data, name>>
          ELSE /\ name' = IF r.kind = "S0" THEN r.name ELSE name
               /\ IF IsUnseeded(address, data)
                  THEN /\ address' = r.curaddress
                       /\ data' = r.curdata
                       /\ UNCHANGED lists
                  ELSE IF WAdd(address, Len(data)) # r.curaddress
                  THEN /\ lists' = [lists EXCEPT ![target] =
                                       Append(@, [address |-> address, alt |-> default_alt,
                                                  data |-> data])]
                       /\ address' = r.curaddress
                       /\ data' = r.curdata
                  ELSE /\ data' = data \o r.curdata
                       /\ UNCHANGED <<address, lists>>
               /\ k' = k + 1
               /\ UNCHANGED <<pc, exitcode>>
    /\ UNCHANGED <<binfiles, hexfiles, intelhex, s19files, lines, default_alt, targets,
                   target, old_ealt, out, fresh, report>>

\* lines 329-338: build(outfile, [target], name, device)
S19End ==
    /\ pc = "s19"
    /\ k > Len(lines)
    /\ CallBuild(<<lists[target]>>, name)
    /\ UNCHANGED <<binfiles, hexfiles, intelhex, s19files, lines, default_alt, k, lists,
                   targets, target, old_ealt, address, data, name, report>>

NextS19 == StartS19 \/ S19Line \/ S19End

SpecS19 == InitS19 /\ [][NextS19]_vars

\* ========================================================================
\* Properties of the codec (SpecCodec)
\* ========================================================================
\* A well-formed input of build: every target holds at least one element,
\* the elements of a target share one alt-setting that fits a byte, and the
\* name has no NUL byte and fits the 255-byte name field.
WellFormedTarget(t) ==
    /\ t # <<>>
    /\ \A e \in 1..Len(t) : t[e].alt = t[1].alt /\ FitsU8(t[e].alt)

WellFormedName(nm) == Len(nm) <= NameFieldLen /\ \A i \in 1..Len(nm) : nm[i] # 0

WellFormedInput ==
    /\ \A t \in 1..Len(targets) : WellFormedTarget(lists[targets[t]])
    /\ WellFormedName(name)

\* C1: parse of the file that build wrote for a well-formed target list and
\* name recovers the same number of targets in the same order, and for each
\* target its alt-setting, its name and its elements in order, each with the
\* same address, the same data bytes and size = len(data).
RoundTrip ==
    (pc = "parsed" /\ fresh /\ WellFormedInput) =>
        /\ report.ok
        /\ Len(report.targets) = Len(targets)
        /\ \A t \in 1..Len(targets) :
              LET src == lists[targets[t]]
                  got == report.targets[t]
              IN /\ got.altsetting = src[1].alt
                 /\ got.name = name
                 /\ Len(got.images) = Len(src)
                 /\ \A e \in 1..Len(src) :
                       /\ got.images[e].address = src[e].address
                       /\ got.images[e].image = src[e].data
                       /\ got.images[e].size = ToW(Len(src[e].data))

RoundTripWitness ==
    /\ pc = "parsed" /\ fresh /\ WellFormedInput
    /\ Len(targets) = 2
    /\ lists[targets[1]][1].alt # lists[targets[2]][1].alt
    /\ Len(lists[targets[1]]) = 2
    /\ lists[targets[1]][1] # lists[targets[1]][2]
    /\ Len(name) = NameFieldLen

\* byte length of the element blob of one target
RECURSIVE BlobLen(_)
BlobLen(t) == IF t = <<>> THEN 0 ELSE ElementHeaderLen + Len(Head(t).data) + BlobLen(Tail(t))

\* offset (0-based) in the file of the header of target t
RECURSIVE TargetOffset(_)
TargetOffset(t) ==
    IF t = 1 THEN PREFIX_SIZE
    ELSE TargetOffset(t - 1) + TargetHeaderLen + BlobLen(lists[targets[t - 1]])

\* offset (0-based) in the file of the header of element e of target t
RECURSIVE ElementOffset(_, _)
ElementOffset(t, e) ==
    IF e = 1 THEN TargetOffset(t) + TargetHeaderLen
    ELSE ElementOffset(t, e - 1) + ElementHeaderLen + Len(lists[targets[t]][e - 1].data)

\* C2: in every file written by build the prefix size field is the length
\* of the file, 11 + all target blobs + 16, the prefix targets field is the
\* number of targets, each target header's size and elements fields are the
\* byte length of its element blob and its number of elements, and each
\* element's size field is len(data).
LengthConsistency ==
    (out.exists /\ fresh) =>
        LET file == out.data
            n == Len(targets)
        IN /\ Len(file) = TargetOffset(n + 1) + SUFFIX_SIZE
           /\ UnpackU32(file, 7) = ToW(Len(file))
           /\ UnpackU8(file, 11) = n
           /\ \A t \in 1..n :
                 LET src == lists[targets[t]]
                     off == TargetOffset(t)
                 IN /\ UnpackU32(file, off + 267) = ToW(BlobLen(src))
                    /\ UnpackU32(file, off + 271) = ToW(Len(src))
                    /\ \A e \in 1..Len(src) :
                          UnpackU32(file, ElementOffset(t, e) + 5) = ToW(Len(src[e].data))

LengthConsistencyWitness ==
    /\ out.exists /\ fresh
    /\ Len(targets) = 2
    /\ Len(lists[targets[1]]) = 2
    /\ BlobLen(lists[targets[1]]) # BlobLen(lists[targets[2]])
    /\ BlobLen(lists[targets[2]]) > ElementHeaderLen

\* C3: the crc field of a file written by build is the one's complement of
\* the CRC-32 of every byte that precedes it, and parse of that file
\* recomputes the same value and reports no CRC error.
ChecksumLaw ==
    /\ (out.exists /\ fresh) =>
          LET z == zlib_crc32(Take(out.data, Len(out.data) - 4))
          IN UnpackU32(out.data, Len(out.data) - 3) = W(TwoTo16 - 1 - z.hi, TwoTo16 - 1 - z.lo)
    /\ (pc = "parsed" /\ fresh) =>
          /\ report.crc = report.suffix.crc
          /\ ~report.crcError

ChecksumLawWitness ==
    /\ pc = "parsed" /\ fresh /\ report.ok
    /\ Len(targets) = 2
    /\ report.suffix.ufd = SigUFD

\* the suffix of a parsed file and whatever follows it
SuffixAndAfter(file) == ParseTargets(Drop(file, PREFIX_SIZE), UnpackU8(file, 11)).rest

\* C9: the checksum parse compares with the suffix's crc field is computed
\* over exactly the bytes that precede that field, so a CRC error is
\* reported iff that value differs from the stored crc, whether or not bytes
\* follow the suffix; trailing bytes are reported as a parse error.
ParseCrcCoverage ==
    pc = "parsed" =>
        LET rest == SuffixAndAfter(out.data)
            covered == Take(out.data, Len(out.data) - Len(rest) + SUFFIX_SIZE - 4)
        IN /\ report.crcError <=> (compute_crc(covered) # UnpackU32(rest, 13))
           /\ report.parseError <=> (Len(rest) > SUFFIX_SIZE)

\* ========================================================================
\* Properties of the build branch for -b and -i (SpecBuild)
\* ========================================================================
RECURSIVE Flatten(_)
Flatten(tl) == IF tl = <<>> THEN <<>> ELSE Head(tl) \o Flatten(Tail(tl))

\* the segments of the descriptors, in descriptor order
BinSegments == [i \in 1..Len(binfiles) |-> DescImage(binfiles[i])]

\* the segments of the hex files, in order
HexSegments == Flatten([i \in 1..Len(hexfiles) |-> HexImages(hexfiles[i])])

\* build has been called by the -b / -i branch
BuildCalled == ~s19files /\ pc \in {"done", "raised"}

\* tl cuts segs into its maximal runs of equal alt-setting
IsRunPartition(tl, segs) ==
    /\ Flatten(tl) = segs
    /\ \A t \in 1..Len(tl) :
          /\ tl[t] # <<>>
          /\ \A e \in 1..Len(tl[t]) : tl[t][e].alt = tl[t][1].alt
    /\ \A t \in 1..(Len(tl) - 1) : tl[t][1].alt # tl[t + 1][1].alt

\* C5: with -b descriptors only, the target list passed to build is the
\* partition of the descriptors into maximal runs of consecutive descriptors
\* with equal alt-setting, elements in descriptor order.
AltGrouping ==
    (BuildCalled /\ hexfiles = <<>>) => IsRunPartition(Deref(targets), BinSegments)

AltGroupingWitness ==
    /\ BuildCalled /\ hexfiles = <<>> /\ out.exists
    /\ Len(binfiles) = 3
    /\ DescAlt(binfiles[1]) = 0 /\ DescAlt(binfiles[2]) = 0 /\ DescAlt(binfiles[3]) = 1
    /\ binfiles[1] # binfiles[2]
    /\ Len(targets) = 2
    /\ Len(lists[targets[1]]) = 2 /\ Len(lists[targets[2]]) = 1

\* the last 16 bytes of d are a suffix with marker UFD whose crc field is
\* the checksum of all bytes of d that precede that field
HasValidSuffix(d) ==
    /\ Len(d) >= SUFFIX_SIZE
    /\ SubSeq(d, Len(d) - 7, Len(d) - 5) = SigUFD
    /\ LET z == zlib_crc32(Take(d, Len(d) - 4))
       IN UnpackU32(d, Len(d) - 3) = W(TwoTo16 - 1 - z.hi, TwoTo16 - 1 - z.lo)

SomeSuffixed ==
    \E i \in 1..Len(binfiles) :
        /\ Files[binfiles[i].file].isfile
        /\ \E d \in {Files[binfiles[i].file].data} : HasValidSuffix(d)

\* C6: if the file of any descriptor, at any position, carries a valid
\* suffix, the program never reaches the call of build, never writes the
\* output file, and ends with exit code 1.
SuffixedRefused ==
    SomeSuffixed =>
        /\ ~out.exists
        /\ pc \in {"start", "bin", "exit"}
        /\ pc = "exit" => exitcode = 1

SuffixedRefusedWitness ==
    /\ pc = "exit" /\ exitcode = 1
    /\ Len(binfiles) = 3
    /\ k = 3
    /\ binfiles[3].file = "s.bin"
    /\ ~DescInvalid(binfiles[1]) /\ ~DescInvalid(binfiles[2])
    /\ Len(Files[binfiles[2].file].data) >= SUFFIX_SIZE

Count(seq, x) == Cardinality({i \in 1..Len(seq) : seq[i] = x})

\* alt-setting byte in the header of target t of the file written for tl
HeaderAlt(file, tl, t) ==
    LET RECURSIVE Off(_)
        Off(j) == IF j = 1 THEN PREFIX_SIZE
                  ELSE Off(j - 1) + TargetHeaderLen + Len(ElementsBlob(tl[j - 1]))
    IN UnpackU8(file, Off(t) + 7)

\* C10: whatever the combination of -b and -i inputs, every ingested segment
\* is exactly one element of exactly one target of the list passed to build,
\* no target is listed twice, and all elements of a target carry the
\* alt-setting written in that target's header.
SegmentsOncePerTarget ==
    BuildCalled =>
        LET tl == Deref(targets)
            all == BinSegments \o HexSegments
        IN /\ \A i, j \in 1..Len(targets) : i # j => targets[i] # targets[j]
           /\ Len(Flatten(tl)) = Len(all)
           /\ \A i \in 1..Len(all) : Count(Flatten(tl), all[i]) = Count(all, all[i])
           /\ \A t \in 1..Len(tl) : \A e \in 1..Len(tl[t]) :
                 /\ tl[t][e].alt = tl[t][1].alt
                 /\ out.exists => HeaderAlt(out.data, tl, t) = tl[t][e].alt

\* ========================================================================
\* Properties of the S-record build branch (SpecS19)
\* ========================================================================
\* the loop is about to read line k
AtLine == pc = "s19" /\ k <= Len(lines)

\* every line has been read and build has been called
S19Finished == s19files /\ pc \in {"done", "raised"} /\ k > Len(lines)

IsData(line) == Record(line).kind = "data"

RECURSIVE PayloadBytes(_)
PayloadBytes(ls) ==
    IF ls = <<>> THEN 0
    ELSE (IF IsData(Head(ls)) THEN Len(Record(Head(ls)).curdata) ELSE 0) + PayloadBytes(Tail(ls))

RECURSIVE ElementBytes(_)
ElementBytes(t) == IF t = <<>> THEN 0 ELSE Len(Head(t).data) + ElementBytes(Tail(t))

\* C4: at the end of the input the running segment is emitted as the last
\* element, so the payload of every data record, the last one included, is
\* in the target passed to build; data records at 0x1000, 0x1004, 0x2000 of
\* 4 bytes each give exactly the elements (0x1000, 8 bytes), (0x2000, 4 bytes).
FinalSegmentEmitted ==
    S19Finished =>
        /\ ElementBytes(lists[target]) = PayloadBytes(lines)
        /\ lines = <<LineA, LineB, LineC>> =>
              lists[target] =
                 <<[address |-> W(0, 4096), alt |-> default_alt,
                    data |-> <<170, 187, 204, 221, 17, 34, 51, 68>>],
                   [address |-> W(0, 8192), alt |-> default_alt,
                    data |-> <<85, 102, 119, 136>>]>>

\* a data record has been read before line k
SawData == \E i \in 1..(k - 1) : IsData(lines[i])

\* C7: for every data record after the first: if its address equals
\* current_address + len(accumulated_bytes) its payload is appended and
\* nothing is emitted; otherwise the running segment is emitted unchanged and
\* a new running segment starts at the record's address with its payload.
ContiguityFolding ==
    [][(AtLine /\ IsData(lines[k]) /\ Record(lines[k]).status = "ok" /\ SawData) =>
          LET r == Record(lines[k])
          IN IF r.curaddress = WAdd(address, Len(data))
             THEN /\ data' = data \o r.curdata
                  /\ address' = address
                  /\ lists' = lists
             ELSE /\ lists' = [lists EXCEPT ![target] =
                                  Append(@, [address |-> address, alt |-> default_alt,
                                             data |-> data])]
                  /\ address' = r.curaddress
                  /\ data' = r.curdata]_vars

\* a line of type S5, S7, S8 or S9
IsIgnoredType(line) ==
    \E d \in {5, 7, 8, 9} : StartsWithS(rstrip(line), d)

\* C8: a line of type S5, S7, S8 or S9 leaves the running segment and the
\* elements emitted so far unchanged.
NonDataIgnored ==
    [][(AtLine /\ IsIgnoredType(lines[k])) => UNCHANGED <<address, data, lists>>]_vars

====
